---- MODULE Spec2Model ----
(***************************************************************************)
(* Model of src/app.py: the in-memory catalog index built by load_data,    *)
(* the recommendation table, normalize_product and the three-tier          *)
(* search_products handler (plus get_top_products).                        *)
(*                                                                         *)
(* Python strings are sequences of one-character strings, so that          *)
(* lower(), strip() and the substring test `in` are computed.  JSON values *)
(* are tagged records [t |-> tag, v |-> payload]; a Python dict read from  *)
(* JSON is a TLA+ function whose DOMAIN is the set of keys present.        *)
(* Floats are modelled by the integers they equal (0.0 is 0).              *)
(***************************************************************************)
EXTENDS Naturals, Sequences, FiniteSets

VARIABLES
    pc,                \* position of the process: load_data, then serving
    data_list,         \* load_data's local data_list (line 51)
    idx,               \* position of the for loop of line 53 in data_list
    PRODUCTS_MAP,      \* ordered dict pid -> raw record (insertion order kept)
    PRODUCT_NAMES_MAP, \* dict stripped name -> pid
    RECOMMENDATIONS,   \* dict pid -> list of stubs
    query,             \* the handler's query, lower-cased and stripped
    response,          \* the list handed to jsonify by the last request
    status,            \* "idle", "ok" (handler returned) or "error" (handler raised)
    tier               \* which return statement produced the response

vars == <<pc, data_list, idx, PRODUCTS_MAP, PRODUCT_NAMES_MAP, RECOMMENDATIONS,
          query, response, status, tier>>

-----------------------------------------------------------------------------
(* Bounds of the model *)

\* longest catalog file enumerated exhaustively over Items
MaxItems == 2
\* length of the long catalog and of the long recommendation list
BulkLen == 23

\* the slice [:20] of lines 147, 159, 172 and 182
Limit == 20

-----------------------------------------------------------------------------
(* Python values and strings *)

PyNone == [t |-> "none"]
PyNum(n) == [t |-> "num", v |-> n]
PyStr(s) == [t |-> "str", v |-> s]
PyList == [t |-> "list"]
PyDict(d) == [t |-> "dict", v |-> d]

Min(a, b) == IF a < b THEN a ELSE b

DigitChars == <<"0", "1", "2", "3", "4", "5", "6", "7", "8", "9">>

RECURSIVE IntToStr(_)
\* str(n) of a non-negative int
IntToStr(n) ==
    IF n < 10 THEN <<DigitChars[n + 1]>>
    ELSE IntToStr(n \div 10) \o <<DigitChars[(n % 10) + 1]>>

\* str(v), as used on identifiers (line 55, 76) and brands (line 157, 179)
Str(v) ==
    CASE v.t = "none" -> <<"N", "o", "n", "e">>
      [] v.t = "num" -> IntToStr(v.v)
      [] v.t = "str" -> v.v
      [] v.t = "list" -> <<"[", "]">>
      [] OTHER -> <<"{", "}">>

LowerChar(c) ==
    CASE c = "A" -> "a"
      [] c = "B" -> "b"
      [] c = "N" -> "n"
      [] c = "X" -> "x"
      [] OTHER -> c

\* s.lower()
Lower(s) == [i \in 1..Len(s) |-> LowerChar(s[i])]

IsSpace(c) == c = " "

RECURSIVE LStrip(_)
LStrip(s) == IF Len(s) > 0 /\ IsSpace(Head(s)) THEN LStrip(Tail(s)) ELSE s

RECURSIVE RStrip(_)
RStrip(s) ==
    IF Len(s) > 0 /\ IsSpace(s[Len(s)]) THEN RStrip(SubSeq(s, 1, Len(s) - 1)) ELSE s

\* s.strip()
Strip(s) == RStrip(LStrip(s))

\* sub in s, for strings
Contains(sub, s) ==
    \E i \in 0..Len(s) : i + Len(sub) <= Len(s) /\ SubSeq(s, i + 1, i + Len(sub)) = sub

\* s[:n]
Take(s, n) == SubSeq(s, 1, Min(n, Len(s)))

\* d.get(k, default) on a dict read from JSON
Get(p, k, default) == IF k \in DOMAIN p.v THEN p.v[k] ELSE default

-----------------------------------------------------------------------------
(* Ordered dict: a sequence of [k, v] entries with distinct keys *)

EmptyDict == <<>>

Keys(d) == {d[i].k : i \in 1..Len(d)}

Lookup(d, k) == d[CHOOSE i \in 1..Len(d) : d[i].k = k].v

\* d[k] = v: an existing key keeps its position, a new key goes last
DictSet(d, k, v) ==
    IF k \in Keys(d)
    THEN [i \in 1..Len(d) |-> IF d[i].k = k THEN [k |-> k, v |-> v] ELSE d[i]]
    ELSE Append(d, [k |-> k, v |-> v])

\* list(d.values())
Values(d) == [i \in 1..Len(d) |-> d[i].v]

-----------------------------------------------------------------------------
(* Plain dict (iteration order never used): a function over the keys *)

NoEntries == <<>>

\* m[k] = v
Put(m, k, v) == [n \in (DOMAIN m) \cup {k} |-> IF n = k THEN v ELSE m[n]]

-----------------------------------------------------------------------------
(* Inputs: the contents of the files under DATA_DIR and the request argument *)

s_empty == <<>>
s_a == <<"a">>
s_b == <<"b">>
s_x == <<"x">>
s_ab == <<"a", "b">>
s_Ab == <<"A", "b">>
s_abx == <<"a", "b", "x">>
s_xa == <<"x", "a">>
s_xab == <<"x", "a", "b">>
s_Xa == <<"X", "a">>
s_b_padded == <<" ", "b", " ">>
s_xa_b == <<"x", "a", " ", "b">>
s_zz == <<"z", "z">>
s_none == <<"n", "o", "n", "e">>
s_12 == <<"1", "2">>
s_1 == <<"1">>

\* Entries a catalog file may hold, valid records and others
Items == <<
    \* 1-4: entries that are no records
    PyStr(s_ab),
    PyNum(5),
    PyNone,
    PyList,
    \* 5: a complete record
    PyDict([product_id_numeric |-> PyNum(1), product_name |-> PyStr(s_xa),
            Brand |-> PyStr(s_Ab), actual_price |-> PyNum(10),
            discounted_price |-> PyNum(8)]),
    \* 6: same identifier once converted to a string, padded name, price not a number
    PyDict([product_id_numeric |-> PyStr(s_1), product_name |-> PyStr(s_b_padded),
            Brand |-> PyStr(s_abx), actual_price |-> PyStr(s_x),
            discounted_price |-> PyNum(7)]),
    \* 7: only the generic identifier field, no name, no brand, price a numeric string
    PyDict([product_id |-> PyNum(2), actual_price |-> PyStr(s_12)]),
    \* 8: no identifier field at all
    PyDict([product_name |-> PyStr(s_Xa), Brand |-> PyStr(s_ab)]),
    \* 9: null numeric identifier
    PyDict([product_id_numeric |-> PyNone, product_id |-> PyNum(3),
            product_name |-> PyStr(s_xa)]),
    \* 10: null name, null price
    PyDict([product_id_numeric |-> PyNum(2), product_name |-> PyNone,
            Brand |-> PyStr(s_ab), actual_price |-> PyNone,
            discounted_price |-> PyStr(s_x)]),
    \* 11: empty-string identifier, null brand
    PyDict([product_id_numeric |-> PyStr(s_empty), product_name |-> PyStr(s_xa_b),
            Brand |-> PyNone, discounted_price |-> PyNum(3)]),
    \* 12: name that is a number, brand that is a number
    PyDict([product_id_numeric |-> PyNum(3), product_name |-> PyNum(7),
            Brand |-> PyNum(5)])
>>

\* A catalog of n entries, picked from Items by f
Catalog(n, f) == [i \in 1..n |-> Items[f[i]]]

\* A catalog of BulkLen records with identifiers 1..BulkLen
BulkRecord(i) ==
    PyDict([product_id_numeric |-> PyNum(i),
            product_name |-> PyStr(IF i % 3 = 0 THEN s_b ELSE IF i % 3 = 1 THEN s_xa ELSE s_xab),
            Brand |-> PyStr(IF i = 2 THEN s_abx ELSE IF i = 4 THEN s_x
                            ELSE IF i % 2 = 0 THEN s_ab ELSE s_Ab),
            actual_price |-> PyNum(i)])

BulkCatalog == [i \in 1..BulkLen |-> BulkRecord(i)]

Stub(name) == PyDict([product_name |-> PyStr(name)])

\* a stub without the name field
NamelessStub == PyDict([score |-> PyNum(1)])

\* Recommendation tables a well-formed precomputed_hybrid.json may hold
RecTables == <<
    Put(NoEntries, s_1, <<Stub(s_zz), Stub(s_b), NamelessStub, Stub(s_xa)>>),
    Put(Put(NoEntries, s_empty, <<Stub(s_b)>>), <<"2">>, <<Stub(s_zz), NamelessStub>>),
    Put(NoEntries, s_1, [i \in 1..BulkLen |-> Stub(IF i % 2 = 0 THEN s_b ELSE s_xa)])
>>

\* Raw values of the request argument q
Queries == {s_empty, <<" ">>, <<"A", "B", " ">>, s_a, s_x, s_b, s_none, s_zz}

-----------------------------------------------------------------------------
(* load_data *)

\* line 51: the entries of a list, the values of a mapping, else nothing
DataList(raw) ==
    IF raw.t = "list" THEN raw.v
    ELSE IF raw.t = "dict" THEN raw.v
    ELSE <<>>

\* line 54: isinstance(item, str)
IsSkipped(item) == item.t = "str"

\* only a dict has .get: item.get on anything else raises AttributeError
HasGet(item) == item.t = "dict"

\* the literal default of line 55
AbsenceMarker == <<"N", "/", "A">>

\* line 55: str(item.get('product_id_numeric', item.get('product_id', 'N/A')))
ItemPid(item) ==
    Str(Get(item, "product_id_numeric", Get(item, "product_id", PyStr(AbsenceMarker))))

\* line 56: pid != 'None'
IsKept(pid) == pid # <<"N", "o", "n", "e">>

\* line 58: item.get('product_name', '')
ItemName(item) == Get(item, "product_name", PyStr(s_empty))

\* .strip() and .lower() exist on strings only
IsString(v) == v.t = "str"

Init ==
    /\ pc = "start"
    /\ data_list = <<>>
    /\ idx = 1
    /\ PRODUCTS_MAP = EmptyDict
    /\ PRODUCT_NAMES_MAP = NoEntries
    /\ RECOMMENDATIONS = NoEntries
    /\ query = s_empty
    /\ response = <<>>
    /\ status = "idle"
    /\ tier = "none"

Serving == <<query, response, status, tier>>

\* lines 36-38: DATA_DIR does not exist, load_data returns
DataDirMissing ==
    /\ pc = "start"
    /\ pc' = "loaded"
    /\ UNCHANGED <<data_list, idx, PRODUCTS_MAP, PRODUCT_NAMES_MAP, RECOMMENDATIONS, Serving>>

\* lines 41-47: neither catalog file exists; lines 48-50, 60: json.load raises
CatalogUnreadable ==
    /\ pc = "start"
    /\ pc' = "recs"
    /\ UNCHANGED <<data_list, idx, PRODUCTS_MAP, PRODUCT_NAMES_MAP, RECOMMENDATIONS, Serving>>

\* lines 48-51: the catalog file is parsed
OpenCatalog ==
    /\ pc = "start"
    /\ \/ \E form \in {"list", "dict"}, n \in 0..MaxItems :
            \E f \in [1..n -> 1..Len(Items)] :
                data_list' = DataList([t |-> form, v |-> Catalog(n, f)])
       \/ data_list' = DataList([t |-> "list", v |-> BulkCatalog])
       \/ data_list' = DataList(PyNum(5))
    /\ idx' = 1
    /\ pc' = "loop"
    /\ UNCHANGED <<PRODUCTS_MAP, PRODUCT_NAMES_MAP, RECOMMENDATIONS, Serving>>

\* ItemStep with line 58 outside the `if` of line 56
ItemStep_NameOutsideIf(item, pm, nm) ==
    IF IsSkipped(item) THEN [raised |-> FALSE, pm |-> pm, nm |-> nm]
    ELSE IF ~HasGet(item) THEN [raised |-> TRUE, pm |-> pm, nm |-> nm]
    ELSE LET pm2 == IF IsKept(ItemPid(item)) THEN DictSet(pm, ItemPid(item), item) ELSE pm
         IN  IF ~IsString(ItemName(item))
             THEN [raised |-> TRUE, pm |-> pm2, nm |-> nm]
             ELSE [raised |-> FALSE, pm |-> pm2,
                   nm |-> Put(nm, Strip(ItemName(item).v), ItemPid(item))]

\* lines 54-58 on one entry, from the maps pm and nm: the maps afterwards, and
\* whether the entry raised (line 60 then ends the loop)
ItemStep(item, pm, nm) ==
    IF IsSkipped(item)
    THEN \* line 54: continue
         [raised |-> FALSE, pm |-> pm, nm |-> nm]
    ELSE IF ~HasGet(item)
    THEN \* line 55 raises
         [raised |-> TRUE, pm |-> pm, nm |-> nm]
    ELSE IF ~IsKept(ItemPid(item))
    THEN [raised |-> FALSE, pm |-> pm, nm |-> nm]
    ELSE IF ~IsString(ItemName(item))
    THEN \* line 57 done, line 58 raises
         [raised |-> TRUE, pm |-> DictSet(pm, ItemPid(item), item), nm |-> nm]
    ELSE [raised |-> FALSE,
          pm |-> DictSet(pm, ItemPid(item), item),
          nm |-> Put(nm, Strip(ItemName(item).v), ItemPid(item))]

\* lines 53-58, one iteration of the loop
LoadItem ==
    /\ pc = "loop"
    /\ idx <= Len(data_list)
    /\ LET r == ItemStep(data_list[idx], PRODUCTS_MAP, PRODUCT_NAMES_MAP)
       IN  /\ PRODUCTS_MAP' = r.pm
           /\ PRODUCT_NAMES_MAP' = r.nm
           /\ IF r.raised
              THEN pc' = "recs" /\ UNCHANGED idx
              ELSE idx' = idx + 1 /\ UNCHANGED pc
    /\ UNCHANGED <<data_list, RECOMMENDATIONS, Serving>>

\* line 59: the loop ran to its end
LoopDone ==
    /\ pc = "loop"
    /\ idx > Len(data_list)
    /\ pc' = "recs"
    /\ UNCHANGED <<data_list, idx, PRODUCTS_MAP, PRODUCT_NAMES_MAP, RECOMMENDATIONS, Serving>>

\* lines 64-68: the table is read, or the file is absent or unparsable
LoadRecommendations ==
    /\ pc = "recs"
    /\ \/ \E r \in 1..Len(RecTables) : RECOMMENDATIONS' = RecTables[r]
       \/ UNCHANGED RECOMMENDATIONS
    /\ pc' = "loaded"
    /\ UNCHANGED <<data_list, idx, PRODUCTS_MAP, PRODUCT_NAMES_MAP, Serving>>

-----------------------------------------------------------------------------
(* normalize_product *)

DigitValue(c) == CHOOSE n \in 0..9 : DigitChars[n + 1] = c

IsDigit(c) == \E n \in 0..9 : DigitChars[n + 1] = c

RECURSIVE ParseDigits(_)
ParseDigits(s) ==
    IF Len(s) = 0 THEN 0
    ELSE 10 * ParseDigits(SubSeq(s, 1, Len(s) - 1)) + DigitValue(s[Len(s)])

\* float(v) returns: v is a number, or a string that reads as one
FloatOk(v) ==
    \/ v.t = "num"
    \/ /\ v.t = "str"
       /\ Len(Strip(v.v)) > 0
       /\ \A i \in 1..Len(Strip(v.v)) : IsDigit(Strip(v.v)[i])

\* float(v) where it returns
FloatValue(v) == IF v.t = "num" THEN v.v ELSE ParseDigits(Strip(v.v))

\* lines 71-72
Price(p) ==
    LET v == Get(p, "actual_price", PyNum(0))
    IN  IF FloatOk(v) THEN FloatValue(v) ELSE 0

\* Disc that never reads the discounted price field
Disc_IgnoresField(p) == Price(p)

\* lines 73-74
Disc(p) ==
    LET v == Get(p, "discounted_price", PyNum(Price(p)))
    IN  IF FloatOk(v) THEN FloatValue(v) ELSE Price(p)

\* line 76: str(p.get('product_id_numeric'))
NormalizedId(p) == Str(Get(p, "product_id_numeric", PyNone))

\* lines 70-84
normalize_product(p) ==
    [p_id |-> NormalizedId(p),
     name |-> Get(p, "product_name", PyStr(<<"U", "n", "k", "n", "o", "w", "n">>)),
     brand |-> Get(p, "Brand", PyStr(<<"G", "e", "n", "e", "r", "i", "c">>)),
     rating |-> Get(p, "rating", PyNum(0)),
     prices |-> Price(p),
     discounted_price |-> Disc(p),
     img_link |-> Get(p, "img_link", PyStr(s_empty)),
     p_link |-> Get(p, "product_link", PyStr(<<"#">>))]

\* [normalize_product(p) for p in ps[:20]]
Normalized(ps) == [i \in 1..Len(Take(ps, Limit)) |-> normalize_product(ps[i])]

-----------------------------------------------------------------------------
(* search_products *)

\* line 151: request.args.get('q', '').lower().strip()
CleanQuery(raw) == Strip(Lower(raw))

\* lines 157, 179: str(p.get('Brand')).lower()
BrandText(p) == Lower(Str(Get(p, "Brand", PyNone)))

\* BrandMatches with the substring test of line 179 in place of equality
BrandMatches_Substring(q, p) == Contains(q, BrandText(p))

\* line 157: query == str(p.get('Brand')).lower()
BrandMatches(q, p) == q = BrandText(p)

\* line 157: the list brand_matches
brand_matches(q) == SelectSeq(Values(PRODUCTS_MAP), LAMBDA p : BrandMatches(q, p))

\* lines 164, 178: query in p.get('product_name', '').lower(), where it does not raise
NameMatches(q, p) == Contains(q, Lower(ItemName(p).v))

RECURSIVE AnchorScan(_, _)
\* lines 162-165 from entry i on: the scan raises at a name that is no string,
\* stops at the first name holding the query, or runs out
AnchorScan(q, i) ==
    IF i > Len(PRODUCTS_MAP) THEN [raised |-> FALSE, found |-> FALSE, id |-> s_empty]
    ELSE IF ~IsString(ItemName(PRODUCTS_MAP[i].v))
    THEN [raised |-> TRUE, found |-> FALSE, id |-> s_empty]
    ELSE IF NameMatches(q, PRODUCTS_MAP[i].v)
    THEN [raised |-> FALSE, found |-> TRUE, id |-> PRODUCTS_MAP[i].k]
    ELSE AnchorScan(q, i + 1)

\* line 167: `matched_id and ...` is false for None and for the empty string
IsTruthy(scan) == scan.found /\ Len(scan.id) > 0

\* line 170: rec.get('product_name') in PRODUCT_NAMES_MAP
Resolves(rec) ==
    LET n == Get(rec, "product_name", PyNone)
    IN  IsString(n) /\ n.v \in DOMAIN PRODUCT_NAMES_MAP

\* lines 168-171: the stubs that resolve, in table order
ResolvedStubs(id) == SelectSeq(RECOMMENDATIONS[id], Resolves)

\* line 171: PRODUCT_NAMES_MAP[rec.get('product_name')]
StubPid(rec) == PRODUCT_NAMES_MAP[Get(rec, "product_name", PyNone).v]

\* line 171 raises KeyError when the name map points outside the primary map
HybridRaises(id) ==
    \E i \in 1..Len(ResolvedStubs(id)) : StubPid(ResolvedStubs(id)[i]) \notin Keys(PRODUCTS_MAP)

\* lines 168-171: the list results
HybridResults(id) ==
    [i \in 1..Len(ResolvedStubs(id)) |-> Lookup(PRODUCTS_MAP, StubPid(ResolvedStubs(id)[i]))]

\* lines 177-179
Score(q, p) ==
    (IF NameMatches(q, p) THEN 10 ELSE 0) + (IF Contains(q, BrandText(p)) THEN 5 ELSE 0)

\* line 178 raises on a name that is no string
FallbackRaises == \E i \in 1..Len(PRODUCTS_MAP) : ~IsString(ItemName(PRODUCTS_MAP[i].v))

\* lines 175-180: the list scored, as (score, p) pairs
Scored(q) ==
    SelectSeq([i \in 1..Len(PRODUCTS_MAP) |->
                  [score |-> Score(q, PRODUCTS_MAP[i].v), p |-> PRODUCTS_MAP[i].v]],
              LAMBDA e : e.score > 0)

\* where a stable descending sort puts e: behind every entry scoring at least as much
InsertDesc(sorted, e) ==
    LET n == Cardinality({i \in 1..Len(sorted) : sorted[i].score >= e.score})
    IN  SubSeq(sorted, 1, n) \o <<e>> \o SubSeq(sorted, n + 1, Len(sorted))

RECURSIVE SortDesc(_)
\* line 181: scored.sort(key=lambda x: x[0], reverse=True), which is stable
SortDesc(s) ==
    IF Len(s) = 0 THEN <<>>
    ELSE InsertDesc(SortDesc(SubSeq(s, 1, Len(s) - 1)), s[Len(s)])

\* lines 175-182
Fallback(q) ==
    IF FallbackRaises THEN [status |-> "error", tier |-> "fallback", response |-> <<>>]
    ELSE [status |-> "ok", tier |-> "fallback",
          response |-> Normalized([i \in 1..Len(Scored(q)) |-> SortDesc(Scored(q))[i].p])]

\* lines 161-182
Hybrid(q) ==
    LET scan == AnchorScan(q, 1)
    IN  IF scan.raised THEN [status |-> "error", tier |-> "hybrid", response |-> <<>>]
        ELSE IF IsTruthy(scan) /\ scan.id \in DOMAIN RECOMMENDATIONS
        THEN IF HybridRaises(scan.id)
             THEN [status |-> "error", tier |-> "hybrid", response |-> <<>>]
             ELSE IF Len(HybridResults(scan.id)) > 0
             THEN [status |-> "ok", tier |-> "hybrid",
                   response |-> Normalized(HybridResults(scan.id))]
             ELSE Fallback(q)
        ELSE Fallback(q)

\* lines 150-182: what the handler answers to the cleaned query q
search_products(q) ==
    IF Len(q) = 0 THEN [status |-> "ok", tier |-> "empty", response |-> <<>>]
    ELSE IF Len(brand_matches(q)) > 0
    THEN [status |-> "ok", tier |-> "brand", response |-> Normalized(brand_matches(q))]
    ELSE Hybrid(q)

\* GET /api/search?q=raw
Search ==
    /\ pc = "loaded"
    /\ \E raw \in Queries :
        LET q == CleanQuery(raw)
            r == search_products(q)
        IN  /\ query' = q
            /\ response' = r.response
            /\ status' = r.status
            /\ tier' = r.tier
    /\ UNCHANGED <<pc, data_list, idx, PRODUCTS_MAP, PRODUCT_NAMES_MAP, RECOMMENDATIONS>>

\* lines 144-147: GET /api/products/top
get_top_products ==
    /\ pc = "loaded"
    /\ query' = s_empty
    /\ response' = IF Len(PRODUCTS_MAP) = 0 THEN <<>> ELSE Normalized(Values(PRODUCTS_MAP))
    /\ status' = "ok"
    /\ tier' = "top"
    /\ UNCHANGED <<pc, data_list, idx, PRODUCTS_MAP, PRODUCT_NAMES_MAP, RECOMMENDATIONS>>

Next ==
    \/ DataDirMissing
    \/ CatalogUnreadable
    \/ OpenCatalog
    \/ LoadItem
    \/ LoopDone
    \/ LoadRecommendations
    \/ Search
    \/ get_top_products

Spec == Init /\ [][Next]_vars

-----------------------------------------------------------------------------
(* Properties *)

\* a search request has been answered, or has raised
SearchDone == pc = "loaded" /\ tier \in {"empty", "brand", "hybrid", "fallback"}

Indexed == 1..Len(PRODUCTS_MAP)

\* the k-th smallest element of a set of positions
Nth(S, k) == CHOOSE i \in S : Cardinality({j \in S : j < i}) = k - 1

HasField(p, k) == k \in DOMAIN p.v

\* positions of the indexed records whose lower-cased brand text is the query
BrandEqual == {i \in Indexed : Lower(Str(Get(PRODUCTS_MAP[i].v, "Brand", PyNone))) = query}

\* the indexed record at position i has a name, a string, that holds the query
NameHoldsQuery(i) ==
    /\ IsString(ItemName(PRODUCTS_MAP[i].v))
    /\ Contains(query, Lower(ItemName(PRODUCTS_MAP[i].v).v))

\* C1: when some indexed record's lower-cased brand equals the non-empty query,
\* the search answers with exactly the records of equal brand, in index order,
\* cut to the first 20, and it is the brand tier that answers.
C1_BrandTier ==
    (SearchDone /\ Len(query) > 0 /\ BrandEqual # {}) =>
        /\ status = "ok"
        /\ tier = "brand"
        /\ Len(response) = Min(Cardinality(BrandEqual), Limit)
        /\ \A k \in 1..Len(response) :
              response[k] = normalize_product(PRODUCTS_MAP[Nth(BrandEqual, k)].v)

\* C1 witness: the brand tier answered with 20 of more than 20 records of equal
\* brand, while a record of another brand, whose name holds the query, is left out
C1_Witness ==
    /\ SearchDone /\ tier = "brand"
    /\ Cardinality(BrandEqual) > Limit
    /\ Len(response) = Limit
    /\ \E i \in Indexed : i \notin BrandEqual /\ NameHoldsQuery(i) /\ i < Nth(BrandEqual, Limit)

\* the anchor of the claim C2: the first indexed record whose name holds the query
Anchors == {i \in Indexed : NameHoldsQuery(i)}
AnchorId == PRODUCTS_MAP[Nth(Anchors, 1)].k
AnchorStubs == RECOMMENDATIONS[AnchorId]
StubName(rec) == Get(rec, "product_name", PyNone)
ResolvingStubs ==
    {k \in 1..Len(AnchorStubs) :
        IsString(StubName(AnchorStubs[k])) /\ StubName(AnchorStubs[k]).v \in DOMAIN PRODUCT_NAMES_MAP}
HybridApplies ==
    /\ Anchors # {}
    /\ AnchorId \in DOMAIN RECOMMENDATIONS
    /\ ResolvingStubs # {}

\* C2: with no record of equal brand, whenever the first record whose name holds
\* the query has a table entry with a stub that resolves, the answer is the
\* records the stubs resolve to, in table order, cut to 20; otherwise the hybrid
\* tier does not answer.
C2_HybridTier ==
    (SearchDone /\ Len(query) > 0 /\ BrandEqual = {}) =>
        IF HybridApplies
        THEN /\ status = "ok"
             /\ tier = "hybrid"
             /\ Len(response) = Min(Cardinality(ResolvingStubs), Limit)
             /\ \A k \in 1..Len(response) :
                   response[k] = normalize_product(
                       Lookup(PRODUCTS_MAP,
                              PRODUCT_NAMES_MAP[StubName(AnchorStubs[Nth(ResolvingStubs, k)]).v]))
        ELSE ~(tier = "hybrid" /\ status = "ok")

\* the score of the claim C3 for the indexed record at position i
ClaimScore(i) ==
    (IF NameHoldsQuery(i) THEN 10 ELSE 0)
        + (IF Contains(query, Lower(Str(Get(PRODUCTS_MAP[i].v, "Brand", PyNone)))) THEN 5 ELSE 0)

ScoredPositions == {i \in Indexed : ClaimScore(i) > 0}

\* the place of a scored record: behind every higher score, and behind the
\* equal scores that come earlier in the index
Rank(i) ==
    1 + Cardinality({j \in ScoredPositions :
                        \/ ClaimScore(j) > ClaimScore(i)
                        \/ ClaimScore(j) = ClaimScore(i) /\ j < i})

\* the answer is the scored records by rank, cut to 20
RankedAnswer ==
    /\ Len(response) = Min(Cardinality(ScoredPositions), Limit)
    /\ \A i \in ScoredPositions :
          Rank(i) <= Limit => response[Rank(i)] = normalize_product(PRODUCTS_MAP[i].v)

\* C3: whenever the fallback tier is reached, the search answers with the
\* records scoring above 0 (10 for the name, plus 5 for the brand), by score
\* descending, equal scores in index order, cut to 20.
C3_ScoredFallback == (SearchDone /\ tier = "fallback") => (status = "ok" /\ RankedAnswer)

\* C4: no request ends in an error, whatever catalog was loaded.
C4_NoFault == status # "error"

\* float() raises on the value, or the field is absent
Unparsable(p, k) == ~HasField(p, k) \/ ~FloatOk(p.v[k])

\* C5 as stated: for a record whose actual price is absent or not a number, the
\* normalized price is 0.0 and the normalized discounted price equals it.
C5_DiscountEqualsPrice ==
    (pc = "loaded" /\ tier = "top") =>
        \A i \in 1..Len(response) :
            Unparsable(PRODUCTS_MAP[i].v, "actual_price") =>
                response[i].prices = 0 /\ response[i].discounted_price = response[i].prices

\* C5 amended: for a record whose actual price is absent or not a number, the
\* normalized price is 0.0; the normalized discounted price equals it when the
\* discounted price field is absent or not a number too, and is the number in
\* that field otherwise.
C5_PriceDefaults ==
    (pc = "loaded" /\ tier = "top") =>
        \A i \in 1..Len(response) :
            Unparsable(PRODUCTS_MAP[i].v, "actual_price") =>
                /\ response[i].prices = 0
                /\ IF Unparsable(PRODUCTS_MAP[i].v, "discounted_price")
                   THEN response[i].discounted_price = response[i].prices
                   ELSE response[i].discounted_price
                            = FloatValue(Get(PRODUCTS_MAP[i].v, "discounted_price", PyNone))

\* C5 witness: the top products hold a record whose two price fields are no
\* numbers and a record whose actual price is no number while its discounted
\* price is one
C5_Witness ==
    /\ pc = "loaded" /\ tier = "top"
    /\ \E i \in 1..Len(response) :
          /\ Unparsable(PRODUCTS_MAP[i].v, "actual_price")
          /\ Unparsable(PRODUCTS_MAP[i].v, "discounted_price")
          /\ response[i].discounted_price = 0
    /\ \E i \in 1..Len(response) :
          /\ Unparsable(PRODUCTS_MAP[i].v, "actual_price")
          /\ ~Unparsable(PRODUCTS_MAP[i].v, "discounted_price")
          /\ response[i].discounted_price > 0

\* C6: no record without both identifier fields is in the index, under any
\* key of the primary map or value of the name map.
C6_AbsentIdDropped ==
    /\ \A i \in Indexed :
          HasField(PRODUCTS_MAP[i].v, "product_id_numeric")
              \/ HasField(PRODUCTS_MAP[i].v, "product_id")
    /\ \A n \in DOMAIN PRODUCT_NAMES_MAP : PRODUCT_NAMES_MAP[n] # AbsenceMarker

\* an entry of the catalog that is a record
IsRecord(item) == item.t = "dict"

RECURSIVE IndexOf(_, _, _, _)
\* the maps the loop of lines 53-58 builds from the entries i.. of a list
IndexOf(list, i, pm, nm) ==
    IF i > Len(list) THEN [pm |-> pm, nm |-> nm]
    ELSE LET r == ItemStep(list[i], pm, nm)
         IN  IF r.raised THEN [pm |-> r.pm, nm |-> r.nm]
             ELSE IndexOf(list, i + 1, r.pm, r.nm)

\* C7: once the catalog is loaded, the index is the one the same input builds
\* with its entries that are no records removed.
C7_NonRecordsSkipped ==
    pc \in {"recs", "loaded"} =>
        [pm |-> PRODUCTS_MAP, nm |-> PRODUCT_NAMES_MAP]
            = IndexOf(SelectSeq(data_list, IsRecord), 1, EmptyDict, NoEntries)

\* C8: at every point of the load and after, every identifier the name map
\* points to is a key of the primary map.
C8_NamesPointIntoIndex ==
    \A n \in DOMAIN PRODUCT_NAMES_MAP : PRODUCT_NAMES_MAP[n] \in Keys(PRODUCTS_MAP)

\* C8 witness: the load was ended by a record whose name raised; that record is
\* in the primary map, the name map holds earlier names only
C8_Witness ==
    /\ pc = "recs"
    /\ idx <= Len(data_list)
    /\ IsRecord(data_list[idx])
    /\ ItemPid(data_list[idx]) \in Keys(PRODUCTS_MAP)
    /\ DOMAIN PRODUCT_NAMES_MAP # {}
    /\ \A n \in DOMAIN PRODUCT_NAMES_MAP : PRODUCT_NAMES_MAP[n] # ItemPid(data_list[idx])

\* C9: every name of the name map is the stripped name of the record the
\* primary map holds under the identifier the name points to.
C9_NamesAgree ==
    \A n \in DOMAIN PRODUCT_NAMES_MAP :
        /\ PRODUCT_NAMES_MAP[n] \in Keys(PRODUCTS_MAP)
        /\ IsString(ItemName(Lookup(PRODUCTS_MAP, PRODUCT_NAMES_MAP[n])))
        /\ Strip(ItemName(Lookup(PRODUCTS_MAP, PRODUCT_NAMES_MAP[n])).v) = n

\* C10: for every indexed record that has one of the two identifier fields, the
\* identifier normalize_product gives is the key the record is stored under.
C10_IdentifierAgrees ==
    \A i \in Indexed :
        (HasField(PRODUCTS_MAP[i].v, "product_id_numeric")
            \/ HasField(PRODUCTS_MAP[i].v, "product_id"))
        => normalize_product(PRODUCTS_MAP[i].v).p_id = PRODUCTS_MAP[i].k

====
